---- MODULE Spec2Model ----
(***************************************************************************)
(* Landing Throttle Manager (src/Main.cpp): the landing state machine      *)
(* StateMachine(), the activation handler Enable() and the "Stop and       *)
(* disable" branch of MenuHandlerCallback().                               *)
(*                                                                         *)
(* X-Plane calls the flight-loop callback and the menu / command handlers  *)
(* on one thread, so every handler is one atomic action.                   *)
(*                                                                         *)
(* Sensor values are the floats returned by XPLMGetDataf / XPLMGetDatavf,  *)
(* represented in tenths of their unit (airspeed 160.0 kt is 1600,         *)
(* altitude 152.4 m is 1524, ratio 1.0 is 10).  Only finite values are     *)
(* modelled.  onground_all is the int returned by XPLMGetDatai.            *)
(***************************************************************************)
EXTENDS Integers, Sequences, FiniteSets

\* ---------------------------------------------------------------- constants
\* #define MIN_SPEED_REVERSE_THRUST 60.0f   (tenths of a knot)
MIN_SPEED_REVERSE_THRUST == 600
\* #define MAX_AIRSPEED 160.0f              (tenths of a knot)
MAX_AIRSPEED == 1600
\* #define MIN_FLAP_ANGLE 18.0f             (tenths of a degree)
MIN_FLAP_ANGLE == 180
\* #define MAX_ALTITUDE 152.4f              (tenths of a metre)
MAX_ALTITUDE == 1524
\* #define GEAR_DOWN_RATIO 1.0f             (tenths)
GEAR_DOWN_RATIO == 10

\* typedef enum _states { ... } states_t
WAIT_FOR_USER == "WAIT_FOR_USER"
START == "START"
THROTTLE_DOWN == "THROTTLE_DOWN"
WAIT_FOR_IDLE_THROTTLE == "WAIT_FOR_IDLE_THROTTLE"
WAIT_FOR_TOUCHDOWN == "WAIT_FOR_TOUCHDOWN"
APPLY_REVERSE == "APPLY_REVERSE"
WAIT_FOR_END_OF_REVERSE == "WAIT_FOR_END_OF_REVERSE"

states_t ==
  { WAIT_FOR_USER, START, THROTTLE_DOWN, WAIT_FOR_IDLE_THROTTLE,
    WAIT_FOR_TOUCHDOWN, APPLY_REVERSE, WAIT_FOR_END_OF_REVERSE }

\* the two X-Plane commands the plugin holds
ReverseThrustCmd == "sim/engines/thrust_reverse_hold"
ThrottleDownCmd == "sim/engines/throttle_down"

Commands == { ReverseThrustCmd, ThrottleDownCmd }

\* ------------------------------------------------------------------- bounds
\* the flight-loop counter passed to StateMachine() is kept modulo this
CounterWrap == 2
\* ticks counted after a stop request saturate here
StopTicksCap == 4
\* completed activation cycles are counted up to here
MaxCycles == 1

\* values the sensor gateway can return (both sides of every threshold)
AirspeedValues ==
  { MIN_SPEED_REVERSE_THRUST, MIN_SPEED_REVERSE_THRUST + 1,
    MAX_AIRSPEED, MAX_AIRSPEED + 1 }
FlapValues == { MIN_FLAP_ANGLE - 1, MIN_FLAP_ANGLE }
GearValues == { 5, GEAR_DOWN_RATIO }
AltitudeValues == { MAX_ALTITUDE, MAX_ALTITUDE + 1 }
ThrottleValues == { 0, 3, 10 }
WheelsValues == { 0, 1 }

\* stands for a dataref the handler does not read
NotRead == -1

\* the datarefs StateMachine() reads
TickSnapshots ==
  [ ias : AirspeedValues, flap : {NotRead}, gear : {NotRead}, alt : {NotRead},
    thr : ThrottleValues, wheels : WheelsValues ]

\* the datarefs Enable() reads
EnableSnapshots ==
  [ ias : AirspeedValues, flap : FlapValues, gear : GearValues,
    alt : AltitudeValues, thr : {NotRead}, wheels : {NotRead} ]

NoSensors ==
  [ ias |-> NotRead, flap |-> NotRead, gear |-> NotRead, alt |-> NotRead,
    thr |-> NotRead, wheels |-> NotRead ]

VARIABLES
  CurrentState,           \* static states_t CurrentState
  DeactivationRequested,  \* static bool DeactivationRequested
  held,                   \* per command: begun by XPLMCommandBegin, not yet ended
  calls,                  \* XPLMCommandBegin/End calls of the last handler
  spoken,                 \* XPLMSpeakString text of the last handler (labels)
  sensors,                \* what the datarefs held during the last handler
  lastOp,                 \* the handler that ran last
  prev,                   \* CurrentState, DeactivationRequested, held before it
  counter,                \* flight-loop counter (mod CounterWrap)
  reverseBegins,          \* XPLMCommandBegin(ReverseThrustCmd) calls this cycle
  reverseEnds,            \* XPLMCommandEnd(ReverseThrustCmd) calls this cycle
  stopTicks,              \* ticks since the oldest unanswered stop request, or -1
  stopDone,               \* ticks the stop answered by the last handler took, or 0
  cycles,                 \* activation cycles that returned to WAIT_FOR_USER
  touchdownRead           \* this cycle, WAIT_FOR_TOUCHDOWN has read onground_all = 1

vars ==
  << CurrentState, DeactivationRequested, held, calls, spoken, sensors, lastOp,
     prev, counter, reverseBegins, reverseEnds, stopTicks, stopDone, cycles,
     touchdownRead >>

Min(a, b) == IF a < b THEN a ELSE b

Count(s, x) == Cardinality({ i \in 1..Len(s) : s[i] = x })

BeginCall(cmd) == << "Begin", cmd >>
EndCall(cmd) == << "End", cmd >>

\* ------------------------------------------------------- actuator gateway
\* XPLMCommandBegin: the command is held until the matching XPLMCommandEnd
XPLMCommandBegin(cmd) ==
  /\ held' = [held EXCEPT ![cmd] = TRUE]
  /\ calls' = << BeginCall(cmd) >>

\* XPLMCommandEnd: releases the command; a no-op on a command not held
XPLMCommandEnd(cmd) ==
  /\ held' = [held EXCEPT ![cmd] = FALSE]
  /\ calls' = << EndCall(cmd) >>

NoCommand ==
  /\ held' = held
  /\ calls' = << >>

NoHold == \A c \in Commands : ~held[c]

\* ------------------------------------------------------------ StateMachine
\* WAIT_FOR_USER dropping a request that is still pending
WaitForUser_ClearsRequest ==
  /\ CurrentState' = CurrentState
  /\ DeactivationRequested' = FALSE
  /\ NoCommand

\* case WAIT_FOR_USER: break
WaitForUser ==
  /\ CurrentState' = CurrentState
  /\ DeactivationRequested' = DeactivationRequested
  /\ NoCommand

\* START with >= for the throttle ratio: an idle throttle is throttled down too
Start_IdleNotSkipped(ThrottleRatio) ==
  /\ IF ThrottleRatio >= 0
       THEN CurrentState' = THROTTLE_DOWN
       ELSE CurrentState' = WAIT_FOR_TOUCHDOWN
  /\ DeactivationRequested' = DeactivationRequested
  /\ NoCommand

\* case START
Start(ThrottleRatio) ==
  /\ IF ThrottleRatio > 0
       THEN CurrentState' = THROTTLE_DOWN
       ELSE CurrentState' = WAIT_FOR_TOUCHDOWN
  /\ DeactivationRequested' = DeactivationRequested
  /\ NoCommand

\* case THROTTLE_DOWN
ThrottleDown ==
  /\ XPLMCommandBegin(ThrottleDownCmd)
  /\ CurrentState' = WAIT_FOR_IDLE_THROTTLE
  /\ DeactivationRequested' = DeactivationRequested

\* WAIT_FOR_IDLE_THROTTLE with the XPLMCommandEnd of line 178 left out
WaitForIdleThrottle_NoEndOnIdle(ThrottleRatio) ==
  IF DeactivationRequested = TRUE
    THEN /\ XPLMCommandEnd(ThrottleDownCmd)
         /\ DeactivationRequested' = FALSE
         /\ CurrentState' = WAIT_FOR_USER
    ELSE IF ThrottleRatio = 0
      THEN /\ NoCommand
           /\ CurrentState' = WAIT_FOR_TOUCHDOWN
           /\ DeactivationRequested' = DeactivationRequested
      ELSE /\ NoCommand
           /\ CurrentState' = CurrentState
           /\ DeactivationRequested' = DeactivationRequested

\* WAIT_FOR_IDLE_THROTTLE without the test of DeactivationRequested
WaitForIdleThrottle_IgnoresStop(ThrottleRatio) ==
  IF ThrottleRatio = 0
    THEN /\ XPLMCommandEnd(ThrottleDownCmd)
         /\ CurrentState' = WAIT_FOR_TOUCHDOWN
         /\ DeactivationRequested' = DeactivationRequested
    ELSE /\ NoCommand
         /\ CurrentState' = CurrentState
         /\ DeactivationRequested' = DeactivationRequested

\* WAIT_FOR_IDLE_THROTTLE with the XPLMCommandEnd of line 166 left out
WaitForIdleThrottle_NoEndOnStop(ThrottleRatio) ==
  IF DeactivationRequested = TRUE
    THEN /\ NoCommand
         /\ DeactivationRequested' = FALSE
         /\ CurrentState' = WAIT_FOR_USER
    ELSE IF ThrottleRatio = 0
      THEN /\ XPLMCommandEnd(ThrottleDownCmd)
           /\ CurrentState' = WAIT_FOR_TOUCHDOWN
           /\ DeactivationRequested' = DeactivationRequested
      ELSE /\ NoCommand
           /\ CurrentState' = CurrentState
           /\ DeactivationRequested' = DeactivationRequested

\* case WAIT_FOR_IDLE_THROTTLE
WaitForIdleThrottle(ThrottleRatio) ==
  IF DeactivationRequested = TRUE
    THEN /\ XPLMCommandEnd(ThrottleDownCmd)
         /\ DeactivationRequested' = FALSE
         /\ CurrentState' = WAIT_FOR_USER
    ELSE IF ThrottleRatio = 0
      THEN /\ XPLMCommandEnd(ThrottleDownCmd)
           /\ CurrentState' = WAIT_FOR_TOUCHDOWN
           /\ DeactivationRequested' = DeactivationRequested
      ELSE /\ NoCommand
           /\ CurrentState' = CurrentState
           /\ DeactivationRequested' = DeactivationRequested

\* WAIT_FOR_TOUCHDOWN going on to reverse thrust without reading the wheels
WaitForTouchdown_NoWheelsTest(AllWheelsOnGround) ==
  IF DeactivationRequested = TRUE
    THEN /\ XPLMCommandEnd(ReverseThrustCmd)
         /\ DeactivationRequested' = FALSE
         /\ CurrentState' = WAIT_FOR_USER
    ELSE /\ NoCommand
         /\ CurrentState' = APPLY_REVERSE
         /\ DeactivationRequested' = DeactivationRequested

\* WAIT_FOR_TOUCHDOWN without the test of DeactivationRequested
WaitForTouchdown_IgnoresStop(AllWheelsOnGround) ==
  IF AllWheelsOnGround = 1
    THEN /\ NoCommand
         /\ CurrentState' = APPLY_REVERSE
         /\ DeactivationRequested' = DeactivationRequested
    ELSE /\ NoCommand
         /\ CurrentState' = CurrentState
         /\ DeactivationRequested' = DeactivationRequested

\* WAIT_FOR_TOUCHDOWN testing the wheels before the deactivation request
WaitForTouchdown_WheelsFirst(AllWheelsOnGround) ==
  IF AllWheelsOnGround = 1
    THEN /\ NoCommand
         /\ CurrentState' = APPLY_REVERSE
         /\ DeactivationRequested' = DeactivationRequested
    ELSE IF DeactivationRequested = TRUE
      THEN /\ XPLMCommandEnd(ReverseThrustCmd)
           /\ DeactivationRequested' = FALSE
           /\ CurrentState' = WAIT_FOR_USER
      ELSE /\ NoCommand
           /\ CurrentState' = CurrentState
           /\ DeactivationRequested' = DeactivationRequested

\* case WAIT_FOR_TOUCHDOWN
WaitForTouchdown(AllWheelsOnGround) ==
  IF DeactivationRequested = TRUE
    THEN /\ XPLMCommandEnd(ReverseThrustCmd)
         /\ DeactivationRequested' = FALSE
         /\ CurrentState' = WAIT_FOR_USER
    ELSE IF AllWheelsOnGround = 1
      THEN /\ NoCommand
           /\ CurrentState' = APPLY_REVERSE
           /\ DeactivationRequested' = DeactivationRequested
      ELSE /\ NoCommand
           /\ CurrentState' = CurrentState
           /\ DeactivationRequested' = DeactivationRequested

\* APPLY_REVERSE with >= for the airspeed: reverse thrust at exactly the minimum
ApplyReverse_AtMinimum(IndicatedAirSpeed) ==
  /\ IF IndicatedAirSpeed >= MIN_SPEED_REVERSE_THRUST
       THEN /\ XPLMCommandBegin(ReverseThrustCmd)
            /\ CurrentState' = WAIT_FOR_END_OF_REVERSE
       ELSE /\ NoCommand
            /\ CurrentState' = WAIT_FOR_USER
  /\ DeactivationRequested' = DeactivationRequested

\* case APPLY_REVERSE
ApplyReverse(IndicatedAirSpeed) ==
  /\ IF IndicatedAirSpeed > MIN_SPEED_REVERSE_THRUST
       THEN /\ XPLMCommandBegin(ReverseThrustCmd)
            /\ CurrentState' = WAIT_FOR_END_OF_REVERSE
       ELSE /\ NoCommand
            /\ CurrentState' = WAIT_FOR_USER
  /\ DeactivationRequested' = DeactivationRequested

\* WAIT_FOR_END_OF_REVERSE with < for the airspeed: reverse kept at the minimum
WaitForEndOfReverse_StrictSpeed(IndicatedAirSpeed) ==
  IF DeactivationRequested = TRUE
    THEN /\ XPLMCommandEnd(ReverseThrustCmd)
         /\ DeactivationRequested' = FALSE
         /\ CurrentState' = WAIT_FOR_USER
    ELSE IF IndicatedAirSpeed < MIN_SPEED_REVERSE_THRUST
      THEN /\ XPLMCommandEnd(ReverseThrustCmd)
           /\ CurrentState' = WAIT_FOR_USER
           /\ DeactivationRequested' = DeactivationRequested
      ELSE /\ NoCommand
           /\ CurrentState' = CurrentState
           /\ DeactivationRequested' = DeactivationRequested

\* WAIT_FOR_END_OF_REVERSE with the clearing of the request (line 240) left out
WaitForEndOfReverse_KeepsRequest(IndicatedAirSpeed) ==
  IF DeactivationRequested = TRUE
    THEN /\ XPLMCommandEnd(ReverseThrustCmd)
         /\ DeactivationRequested' = DeactivationRequested
         /\ CurrentState' = WAIT_FOR_USER
    ELSE IF IndicatedAirSpeed <= MIN_SPEED_REVERSE_THRUST
      THEN /\ XPLMCommandEnd(ReverseThrustCmd)
           /\ CurrentState' = WAIT_FOR_USER
           /\ DeactivationRequested' = DeactivationRequested
      ELSE /\ NoCommand
           /\ CurrentState' = CurrentState
           /\ DeactivationRequested' = DeactivationRequested

\* WAIT_FOR_END_OF_REVERSE with the XPLMCommandEnd of line 239 left out
WaitForEndOfReverse_NoEndOnStop(IndicatedAirSpeed) ==
  IF DeactivationRequested = TRUE
    THEN /\ NoCommand
         /\ DeactivationRequested' = FALSE
         /\ CurrentState' = WAIT_FOR_USER
    ELSE IF IndicatedAirSpeed <= MIN_SPEED_REVERSE_THRUST
      THEN /\ XPLMCommandEnd(ReverseThrustCmd)
           /\ CurrentState' = WAIT_FOR_USER
           /\ DeactivationRequested' = DeactivationRequested
      ELSE /\ NoCommand
           /\ CurrentState' = CurrentState
           /\ DeactivationRequested' = DeactivationRequested

\* WAIT_FOR_END_OF_REVERSE with the XPLMCommandEnd of line 251 left out
WaitForEndOfReverse_NoEndOnSpeed(IndicatedAirSpeed) ==
  IF DeactivationRequested = TRUE
    THEN /\ XPLMCommandEnd(ReverseThrustCmd)
         /\ DeactivationRequested' = FALSE
         /\ CurrentState' = WAIT_FOR_USER
    ELSE IF IndicatedAirSpeed <= MIN_SPEED_REVERSE_THRUST
      THEN /\ NoCommand
           /\ CurrentState' = WAIT_FOR_USER
           /\ DeactivationRequested' = DeactivationRequested
      ELSE /\ NoCommand
           /\ CurrentState' = CurrentState
           /\ DeactivationRequested' = DeactivationRequested

\* case WAIT_FOR_END_OF_REVERSE
WaitForEndOfReverse(IndicatedAirSpeed) ==
  IF DeactivationRequested = TRUE
    THEN /\ XPLMCommandEnd(ReverseThrustCmd)
         /\ DeactivationRequested' = FALSE
         /\ CurrentState' = WAIT_FOR_USER
    ELSE IF IndicatedAirSpeed <= MIN_SPEED_REVERSE_THRUST
      THEN /\ XPLMCommandEnd(ReverseThrustCmd)
           /\ CurrentState' = WAIT_FOR_USER
           /\ DeactivationRequested' = DeactivationRequested
      ELSE /\ NoCommand
           /\ CurrentState' = CurrentState
           /\ DeactivationRequested' = DeactivationRequested

\* switch (CurrentState); s is what the datarefs return during this call
StateMachine(s) ==
  /\ CASE CurrentState = WAIT_FOR_USER -> WaitForUser
       [] CurrentState = START -> Start(s.thr)
       [] CurrentState = THROTTLE_DOWN -> ThrottleDown
       [] CurrentState = WAIT_FOR_IDLE_THROTTLE -> WaitForIdleThrottle(s.thr)
       [] CurrentState = WAIT_FOR_TOUCHDOWN -> WaitForTouchdown(s.wheels)
       [] CurrentState = APPLY_REVERSE -> ApplyReverse(s.ias)
       [] CurrentState = WAIT_FOR_END_OF_REVERSE -> WaitForEndOfReverse(s.ias)
  /\ spoken' = << >>

\* ------------------------------------------------------------------ Enable
\* the condition of line 289 with < for the airspeed
Eligible_StrictAirspeed(IndicatedAirSpeed, FlapAngle, GearDeployRatio, AltitudeAboveGround) ==
  /\ IndicatedAirSpeed < MAX_AIRSPEED
  /\ FlapAngle >= MIN_FLAP_ANGLE
  /\ GearDeployRatio = GEAR_DOWN_RATIO
  /\ AltitudeAboveGround <= MAX_ALTITUDE

\* the condition of the if at line 289
Eligible(IndicatedAirSpeed, FlapAngle, GearDeployRatio, AltitudeAboveGround) ==
  /\ IndicatedAirSpeed <= MAX_AIRSPEED
  /\ FlapAngle >= MIN_FLAP_ANGLE
  /\ GearDeployRatio = GEAR_DOWN_RATIO
  /\ AltitudeAboveGround <= MAX_ALTITUDE

\* the labels strcat_s appends to Errors, in order
Errors(IndicatedAirSpeed, FlapAngle, GearDeployRatio, AltitudeAboveGround) ==
  (IF IndicatedAirSpeed > MAX_AIRSPEED THEN << "Airspeed too high" >> ELSE << >>)
  \o (IF FlapAngle < MIN_FLAP_ANGLE THEN << "Flaps too low" >> ELSE << >>)
  \o (IF GearDeployRatio # GEAR_DOWN_RATIO THEN << "Gear not down" >> ELSE << >>)
  \o (IF AltitudeAboveGround > MAX_ALTITUDE
        THEN << "Altitude too high" >> ELSE << >>)

\* Enable() with the clearing of the request (line 291) left out
Enable_KeepsRequest(s) ==
  /\ IF CurrentState = WAIT_FOR_USER
       THEN IF Eligible(s.ias, s.flap, s.gear, s.alt)
              THEN /\ DeactivationRequested' = DeactivationRequested
                   /\ CurrentState' = START
                   /\ spoken' = << >>
              ELSE /\ spoken' = Errors(s.ias, s.flap, s.gear, s.alt)
                   /\ CurrentState' = CurrentState
                   /\ DeactivationRequested' = DeactivationRequested
       ELSE /\ spoken' = << "Already enabled" >>
            /\ CurrentState' = CurrentState
            /\ DeactivationRequested' = DeactivationRequested
  /\ NoCommand

\* Enable() without the test of CurrentState at line 272
Enable_NoStateTest(s) ==
  /\ IF Eligible(s.ias, s.flap, s.gear, s.alt)
       THEN /\ DeactivationRequested' = FALSE
            /\ CurrentState' = START
            /\ spoken' = << >>
       ELSE /\ spoken' = Errors(s.ias, s.flap, s.gear, s.alt)
            /\ CurrentState' = CurrentState
            /\ DeactivationRequested' = DeactivationRequested
  /\ NoCommand

\* Enable(); XPLMSpeakString(Errors) is called only when Errors is not empty,
\* so an empty spoken stands for no call
Enable(s) ==
  /\ IF CurrentState = WAIT_FOR_USER
       THEN IF Eligible(s.ias, s.flap, s.gear, s.alt)
              THEN /\ DeactivationRequested' = FALSE
                   /\ CurrentState' = START
                   /\ spoken' = << >>
              ELSE /\ spoken' = Errors(s.ias, s.flap, s.gear, s.alt)
                   /\ CurrentState' = CurrentState
                   /\ DeactivationRequested' = DeactivationRequested
       ELSE /\ spoken' = << "Already enabled" >>
            /\ CurrentState' = CurrentState
            /\ DeactivationRequested' = DeactivationRequested
  /\ NoCommand

\* the stop branch without the test of CurrentState at line 346
StopAndDisable_NoStateTest ==
  /\ DeactivationRequested' = TRUE
  /\ CurrentState' = CurrentState
  /\ spoken' = << >>
  /\ NoCommand

\* the stop branch setting CurrentState itself instead of raising the flag
StopAndDisable_Preemptive ==
  /\ CurrentState' = WAIT_FOR_USER
  /\ DeactivationRequested' = DeactivationRequested
  /\ spoken' = << >>
  /\ NoCommand

\* MenuHandlerCallback, inItemRef == MENU_ITEM_ID_STOP
StopAndDisable ==
  /\ IF CurrentState # WAIT_FOR_USER
       THEN DeactivationRequested' = TRUE
       ELSE DeactivationRequested' = DeactivationRequested
  /\ CurrentState' = CurrentState
  /\ spoken' = << >>
  /\ NoCommand

\* ----------------------------------------------------------------- actions
Before == [ state |-> CurrentState, deact |-> DeactivationRequested, held |-> held ]

\* the flight-loop callback, every STATE_MACHINE_EXECUTION_INTERVAL seconds
Tick ==
  \E s \in TickSnapshots :
    /\ sensors' = s
    /\ StateMachine(s)
    /\ lastOp' = "tick"
    /\ prev' = Before
    /\ counter' = (counter + 1) % CounterWrap
    /\ reverseBegins' = reverseBegins + Count(calls', BeginCall(ReverseThrustCmd))
    /\ reverseEnds' = reverseEnds + Count(calls', EndCall(ReverseThrustCmd))
    /\ LET answered == CurrentState' = WAIT_FOR_USER /\ \A c \in Commands : ~held'[c]
       IN  /\ stopTicks' = IF stopTicks = -1 \/ answered
                             THEN -1 ELSE Min(stopTicks + 1, StopTicksCap)
           /\ stopDone' = IF stopTicks # -1 /\ answered
                            THEN Min(stopTicks + 1, StopTicksCap) ELSE 0
    /\ cycles' = IF CurrentState # WAIT_FOR_USER /\ CurrentState' = WAIT_FOR_USER
                   THEN Min(cycles + 1, MaxCycles) ELSE cycles
    /\ touchdownRead' =
         \/ touchdownRead
         \/ (CurrentState = WAIT_FOR_TOUCHDOWN /\ ~DeactivationRequested /\ s.wheels = 1)

\* the operator presses the configured button or chooses Enable in the menu
RequestActivate ==
  \E s \in EnableSnapshots :
    /\ sensors' = s
    /\ Enable(s)
    /\ lastOp' = "activate"
    /\ prev' = Before
    /\ IF CurrentState' = START /\ CurrentState # START
         THEN reverseBegins' = 0 /\ reverseEnds' = 0 /\ touchdownRead' = FALSE
         ELSE UNCHANGED << reverseBegins, reverseEnds, touchdownRead >>
    /\ stopDone' = 0
    /\ UNCHANGED << counter, stopTicks, cycles >>

\* the operator chooses Stop and disable in the menu
RequestDeactivate ==
  /\ StopAndDisable
  /\ lastOp' = "deactivate"
  /\ prev' = Before
  /\ stopTicks' = IF CurrentState # WAIT_FOR_USER /\ stopTicks = -1
                    THEN 0 ELSE stopTicks
  /\ stopDone' = 0
  /\ sensors' = NoSensors
  /\ UNCHANGED << counter, reverseBegins, reverseEnds, cycles, touchdownRead >>

\* XPluginStart: CurrentState = WAIT_FOR_USER, DeactivationRequested = FALSE
Init ==
  /\ CurrentState = WAIT_FOR_USER
  /\ DeactivationRequested = FALSE
  /\ held = [c \in Commands |-> FALSE]
  /\ calls = << >>
  /\ spoken = << >>
  /\ sensors = NoSensors
  /\ lastOp = "init"
  /\ prev = [ state |-> WAIT_FOR_USER, deact |-> FALSE,
              held |-> [c \in Commands |-> FALSE] ]
  /\ counter = 0
  /\ reverseBegins = 0
  /\ reverseEnds = 0
  /\ stopTicks = -1
  /\ stopDone = 0
  /\ cycles = 0
  /\ touchdownRead = FALSE

Next == Tick \/ RequestActivate \/ RequestDeactivate

Spec == Init /\ [][Next]_vars

\* X-Plane keeps calling the registered flight-loop callback
LiveSpec == Spec /\ WF_vars(Tick)

TypeOK ==
  /\ CurrentState \in states_t
  /\ DeactivationRequested \in BOOLEAN
  /\ held \in [Commands -> BOOLEAN]
  /\ sensors \in TickSnapshots \cup EnableSnapshots \cup {NoSensors}
  /\ lastOp \in { "init", "tick", "activate", "deactivate" }
  /\ counter \in 0..(CounterWrap - 1)
  /\ stopTicks \in -1..StopTicksCap
  /\ stopDone \in 0..StopTicksCap
  /\ cycles \in 0..MaxCycles
  /\ touchdownRead \in BOOLEAN

\* ------------------------------------------------------------------ claims
WaitingStates ==
  { WAIT_FOR_IDLE_THROTTLE, WAIT_FOR_TOUCHDOWN, WAIT_FOR_END_OF_REVERSE }

\* C1: whenever CurrentState is WAIT_FOR_USER (Idle), neither the throttle-down
\* command nor the reverse-thrust command is held.
C1_IdleHasNoHold ==
  CurrentState = WAIT_FOR_USER =>
    /\ held[ThrottleDownCmd] = FALSE
    /\ held[ReverseThrustCmd] = FALSE

\* a tick entered WAIT_FOR_USER from a state in which a command was held
C1_Witness ==
  /\ lastOp = "tick"
  /\ CurrentState = WAIT_FOR_USER
  /\ prev.state # WAIT_FOR_USER
  /\ prev.held[ThrottleDownCmd]

\* C2: Enable() in WAIT_FOR_USER enters START if and only if airspeed <= 160,
\* flap >= 18, gear ratio = 1.0 and altitude <= 152.4; otherwise the state stays
\* WAIT_FOR_USER, no command call is made, and the labels spoken are exactly
\* those of the predicates that failed.
C2_ActivateIffEligible ==
  (lastOp = "activate" /\ prev.state = WAIT_FOR_USER) =>
    LET airspeedOk == sensors.ias <= MAX_AIRSPEED
        flapsOk == sensors.flap >= MIN_FLAP_ANGLE
        gearOk == sensors.gear = GEAR_DOWN_RATIO
        altitudeOk == sensors.alt <= MAX_ALTITUDE
        allOk == airspeedOk /\ flapsOk /\ gearOk /\ altitudeOk
        failed == { l \in { "Airspeed too high", "Flaps too low",
                            "Gear not down", "Altitude too high" } :
                      \/ l = "Airspeed too high" /\ ~airspeedOk
                      \/ l = "Flaps too low" /\ ~flapsOk
                      \/ l = "Gear not down" /\ ~gearOk
                      \/ l = "Altitude too high" /\ ~altitudeOk }
    IN  /\ (CurrentState = START) <=> allOk
        /\ ~allOk =>
             /\ CurrentState = WAIT_FOR_USER
             /\ calls = << >>
             /\ held = prev.held
             /\ { spoken[i] : i \in 1..Len(spoken) } = failed
             /\ Len(spoken) = Cardinality(failed)

\* after a cycle has come back to WAIT_FOR_USER, an activation is refused for
\* two reasons at once
C2_Witness ==
  /\ lastOp = "activate"
  /\ prev.state = WAIT_FOR_USER
  /\ cycles >= 1
  /\ CurrentState = WAIT_FOR_USER
  /\ spoken = << "Airspeed too high", "Gear not down" >>

\* C3: a tick in WAIT_FOR_IDLE_THROTTLE, WAIT_FOR_TOUCHDOWN or
\* WAIT_FOR_END_OF_REVERSE with DeactivationRequested set ends in WAIT_FOR_USER
\* whatever the sensors read, leaves DeactivationRequested false, and ends each
\* command that was held with exactly one XPLMCommandEnd and begins none.
C3_StopTakesPriority ==
  (lastOp = "tick" /\ prev.state \in WaitingStates /\ prev.deact) =>
    /\ CurrentState = WAIT_FOR_USER
    /\ DeactivationRequested = FALSE
    /\ Len(calls) = 1
    /\ \A c \in Commands :
         /\ Count(calls, BeginCall(c)) = 0
         /\ prev.held[c] => (Count(calls, EndCall(c)) = 1 /\ ~held[c])

\* the stop wins in WAIT_FOR_IDLE_THROTTLE over a throttle ratio of 0
C3_Witness ==
  /\ lastOp = "tick"
  /\ prev.state = WAIT_FOR_IDLE_THROTTLE
  /\ prev.deact
  /\ prev.held[ThrottleDownCmd]
  /\ sensors.thr = 0
  /\ CurrentState = WAIT_FOR_USER
  /\ calls = << EndCall(ThrottleDownCmd) >>

\* C4: the reverse-thrust command is held if and only if CurrentState is
\* WAIT_FOR_END_OF_REVERSE.
C4_ReverseHeldIffAwaitingReverseEnd ==
  held[ReverseThrustCmd] <=> (CurrentState = WAIT_FOR_END_OF_REVERSE)

\* a tick stays in WAIT_FOR_END_OF_REVERSE with the command held
C4_Witness ==
  /\ lastOp = "tick"
  /\ prev.state = WAIT_FOR_END_OF_REVERSE
  /\ CurrentState = WAIT_FOR_END_OF_REVERSE
  /\ held[ReverseThrustCmd]

\* a tick has just brought an activation cycle back to WAIT_FOR_USER
CycleEnded ==
  lastOp = "tick" /\ prev.state # WAIT_FOR_USER /\ CurrentState = WAIT_FOR_USER

\* C5 as stated: every activation cycle begins the reverse-thrust command
\* exactly once and ends it exactly once.
C5_Original ==
  CycleEnded => (reverseBegins = 1 /\ reverseEnds = 1)

\* C5 as amended: in every activation cycle XPLMCommandBegin(ReverseThrustCmd)
\* is called at most once and XPLMCommandEnd(ReverseThrustCmd) at most once,
\* and a cycle that began the command has ended it exactly once when it
\* returns to WAIT_FOR_USER.
C5_ReverseBegunAndEndedAtMostOnce ==
  /\ reverseBegins <= 1
  /\ reverseEnds <= 1
  /\ (CycleEnded /\ reverseBegins = 1) => reverseEnds = 1

\* a cycle that went through reverse thrust has returned to WAIT_FOR_USER
C5_Witness ==
  /\ CycleEnded
  /\ prev.state = WAIT_FOR_END_OF_REVERSE
  /\ reverseBegins = 1
  /\ reverseEnds = 1

\* C6 as stated: with the flight loop running, every non-Idle state is
\* eventually followed by WAIT_FOR_USER, whatever the sensors and operator do.
C6_Original ==
  (CurrentState # WAIT_FOR_USER) ~> (CurrentState = WAIT_FOR_USER)

\* C6 as amended: with the flight loop running, START, THROTTLE_DOWN and
\* APPLY_REVERSE are always left, and from every non-Idle state in which
\* DeactivationRequested is set CurrentState eventually becomes WAIT_FOR_USER.
C6_ReturnsToIdleOnceStopped ==
  /\ (CurrentState # WAIT_FOR_USER /\ DeactivationRequested)
       ~> (CurrentState = WAIT_FOR_USER)
  /\ \A st \in { START, THROTTLE_DOWN, APPLY_REVERSE } :
       (CurrentState = st) ~> (CurrentState # st)

\* a stop pending in WAIT_FOR_TOUCHDOWN brought the machine back although the
\* wheels were not on the ground
C6_Witness ==
  /\ lastOp = "tick"
  /\ prev.state = WAIT_FOR_TOUCHDOWN
  /\ prev.deact
  /\ sensors.wheels = 0
  /\ CurrentState = WAIT_FOR_USER

\* C7: after a stop requested in a non-Idle state, CurrentState is
\* WAIT_FOR_USER with no command held after at most 3 ticks.
C7_StoppedWithinThreeTicks ==
  /\ stopTicks < 3
  /\ stopDone <= 3

\* a stop that took all three ticks (requested in START with the throttle open)
C7_Witness ==
  /\ stopDone = 3
  /\ CurrentState = WAIT_FOR_USER
  /\ held[ThrottleDownCmd] = FALSE
  /\ held[ReverseThrustCmd] = FALSE

\* C8: Enable() in a non-Idle state only speaks "Already enabled": CurrentState,
\* DeactivationRequested and both holds are unchanged, no command call is made
\* and no eligibility label is spoken.
C8_ActivateWhileActiveIsNoOp ==
  (lastOp = "activate" /\ prev.state # WAIT_FOR_USER) =>
    /\ CurrentState = prev.state
    /\ DeactivationRequested = prev.deact
    /\ held = prev.held
    /\ calls = << >>
    /\ spoken = << "Already enabled" >>

\* Enable() with a stop pending and an airspeed that would be refused
C8_Witness ==
  /\ lastOp = "activate"
  /\ prev.state = WAIT_FOR_IDLE_THROTTLE
  /\ prev.deact
  /\ sensors.ias > MAX_AIRSPEED
  /\ DeactivationRequested
  /\ held[ThrottleDownCmd]
  /\ spoken = << "Already enabled" >>

\* C9: the stop menu item chosen in WAIT_FOR_USER changes nothing and says
\* nothing.
C9_StopWhileIdleIgnored ==
  (lastOp = "deactivate" /\ prev.state = WAIT_FOR_USER) =>
    /\ DeactivationRequested = prev.deact
    /\ CurrentState = WAIT_FOR_USER
    /\ held = prev.held
    /\ calls = << >>
    /\ spoken = << >>

\* the stop menu item chosen in WAIT_FOR_USER after a cycle
C9_Witness ==
  /\ lastOp = "deactivate"
  /\ prev.state = WAIT_FOR_USER
  /\ cycles >= 1
  /\ DeactivationRequested = FALSE

\* C10: the stop menu item chosen in a non-Idle state sets
\* DeactivationRequested and leaves CurrentState and both holds as they were;
\* only a tick takes CurrentState to WAIT_FOR_USER.
C10_StopIsCooperative ==
  /\ (lastOp = "deactivate" /\ prev.state # WAIT_FOR_USER) =>
       /\ DeactivationRequested = TRUE
       /\ CurrentState = prev.state
       /\ held = prev.held
       /\ calls = << >>
  /\ (prev.state # WAIT_FOR_USER /\ CurrentState = WAIT_FOR_USER) =>
       lastOp = "tick"

\* the stop menu item chosen while reverse thrust is held
C10_Witness ==
  /\ lastOp = "deactivate"
  /\ prev.state = WAIT_FOR_END_OF_REVERSE
  /\ ~prev.deact
  /\ DeactivationRequested
  /\ CurrentState = WAIT_FOR_END_OF_REVERSE
  /\ held[ReverseThrustCmd]

\* C11: a tick in START makes no command call and goes to WAIT_FOR_TOUCHDOWN
\* when the throttle ratio reads 0 and to THROTTLE_DOWN when it reads positive;
\* a tick in THROTTLE_DOWN always begins the throttle-down command and enters
\* WAIT_FOR_IDLE_THROTTLE; and WAIT_FOR_IDLE_THROTTLE is entered in no other way.
C11_StartBranchesOnThrottle ==
  /\ (lastOp = "tick" /\ prev.state = START) =>
       /\ calls = << >>
       /\ held = prev.held
       /\ sensors.thr = 0 => CurrentState = WAIT_FOR_TOUCHDOWN
       /\ sensors.thr > 0 => CurrentState = THROTTLE_DOWN
  /\ (lastOp = "tick" /\ prev.state = THROTTLE_DOWN) =>
       /\ CurrentState = WAIT_FOR_IDLE_THROTTLE
       /\ calls = << BeginCall(ThrottleDownCmd) >>
       /\ held[ThrottleDownCmd]
  /\ (CurrentState = WAIT_FOR_IDLE_THROTTLE /\ prev.state # WAIT_FOR_IDLE_THROTTLE) =>
       /\ lastOp = "tick"
       /\ prev.state = THROTTLE_DOWN
       /\ calls = << BeginCall(ThrottleDownCmd) >>

\* a tick in START read an idle throttle and skipped the throttle reduction
C11_Witness ==
  /\ lastOp = "tick"
  /\ prev.state = START
  /\ sensors.thr = 0
  /\ CurrentState = WAIT_FOR_TOUCHDOWN
  /\ calls = << >>

\* the last handler was a tick in a state that has nothing to do: WAIT_FOR_USER,
\* or a waiting state with no stop requested and its exit condition not read
NoActionTick ==
  /\ lastOp = "tick"
  /\ \/ prev.state = WAIT_FOR_USER
     \/ /\ prev.state = WAIT_FOR_IDLE_THROTTLE
        /\ ~prev.deact
        /\ sensors.thr # 0
     \/ /\ prev.state = WAIT_FOR_TOUCHDOWN
        /\ ~prev.deact
        /\ sensors.wheels # 1
     \/ /\ prev.state = WAIT_FOR_END_OF_REVERSE
        /\ ~prev.deact
        /\ sensors.ias > MIN_SPEED_REVERSE_THRUST

\* C12: a tick in WAIT_FOR_USER, or in a waiting state with no stop requested
\* and its exit condition not holding, makes no command call and leaves
\* CurrentState, DeactivationRequested and both holds unchanged.
C12_NoActionTickChangesNothing ==
  NoActionTick =>
    /\ calls = << >>
    /\ spoken = << >>
    /\ CurrentState = prev.state
    /\ DeactivationRequested = prev.deact
    /\ held = prev.held

\* a tick waited in WAIT_FOR_TOUCHDOWN with the wheels still in the air
C12_Witness ==
  /\ NoActionTick
  /\ prev.state = WAIT_FOR_TOUCHDOWN
  /\ sensors.wheels = 0
  /\ CurrentState = WAIT_FOR_TOUCHDOWN

\* the last handler was a tick that found DeactivationRequested set in a state
\* that tests it
StopTransition ==
  lastOp = "tick" /\ prev.deact /\ prev.state \in WaitingStates

\* C13: a tick that takes its transition because DeactivationRequested is set
\* leaves it false in the same step; the flag is raised only by the stop menu
\* item in a non-Idle state, and each such transition answers a stop request
\* that was still unanswered, so one request causes at most one of them.
C13_RequestConsumedOnce ==
  /\ StopTransition =>
       /\ DeactivationRequested = FALSE
       /\ stopDone >= 1
       /\ stopTicks = -1
  /\ (DeactivationRequested /\ ~prev.deact) =>
       (lastOp = "deactivate" /\ prev.state # WAIT_FOR_USER)

\* a stop pending in WAIT_FOR_END_OF_REVERSE has been consumed
C13_Witness ==
  /\ StopTransition
  /\ prev.state = WAIT_FOR_END_OF_REVERSE
  /\ CurrentState = WAIT_FOR_USER
  /\ DeactivationRequested = FALSE

\* the state transition table of tick(): the rows of one state are read from
\* the top, as its "otherwise" rows require
TransitionTable ==
  << [ state |-> WAIT_FOR_USER, cond |-> "always", calls |-> << >>,
       clear |-> FALSE, next |-> WAIT_FOR_USER ],
     [ state |-> START, cond |-> "throttle > 0", calls |-> << >>,
       clear |-> FALSE, next |-> THROTTLE_DOWN ],
     [ state |-> START, cond |-> "throttle = 0", calls |-> << >>,
       clear |-> FALSE, next |-> WAIT_FOR_TOUCHDOWN ],
     [ state |-> THROTTLE_DOWN, cond |-> "always",
       calls |-> << BeginCall(ThrottleDownCmd) >>,
       clear |-> FALSE, next |-> WAIT_FOR_IDLE_THROTTLE ],
     [ state |-> WAIT_FOR_IDLE_THROTTLE, cond |-> "request set",
       calls |-> << EndCall(ThrottleDownCmd) >>,
       clear |-> TRUE, next |-> WAIT_FOR_USER ],
     [ state |-> WAIT_FOR_IDLE_THROTTLE, cond |-> "throttle = 0",
       calls |-> << EndCall(ThrottleDownCmd) >>,
       clear |-> FALSE, next |-> WAIT_FOR_TOUCHDOWN ],
     [ state |-> WAIT_FOR_IDLE_THROTTLE, cond |-> "always", calls |-> << >>,
       clear |-> FALSE, next |-> WAIT_FOR_IDLE_THROTTLE ],
     [ state |-> WAIT_FOR_TOUCHDOWN, cond |-> "request set",
       calls |-> << EndCall(ReverseThrustCmd) >>,
       clear |-> TRUE, next |-> WAIT_FOR_USER ],
     [ state |-> WAIT_FOR_TOUCHDOWN, cond |-> "wheels on ground", calls |-> << >>,
       clear |-> FALSE, next |-> APPLY_REVERSE ],
     [ state |-> WAIT_FOR_TOUCHDOWN, cond |-> "always", calls |-> << >>,
       clear |-> FALSE, next |-> WAIT_FOR_TOUCHDOWN ],
     [ state |-> APPLY_REVERSE, cond |-> "airspeed > minimum",
       calls |-> << BeginCall(ReverseThrustCmd) >>,
       clear |-> FALSE, next |-> WAIT_FOR_END_OF_REVERSE ],
     [ state |-> APPLY_REVERSE, cond |-> "airspeed <= minimum", calls |-> << >>,
       clear |-> FALSE, next |-> WAIT_FOR_USER ],
     [ state |-> WAIT_FOR_END_OF_REVERSE, cond |-> "request set",
       calls |-> << EndCall(ReverseThrustCmd) >>,
       clear |-> TRUE, next |-> WAIT_FOR_USER ],
     [ state |-> WAIT_FOR_END_OF_REVERSE, cond |-> "airspeed <= minimum",
       calls |-> << EndCall(ReverseThrustCmd) >>,
       clear |-> FALSE, next |-> WAIT_FOR_USER ],
     [ state |-> WAIT_FOR_END_OF_REVERSE, cond |-> "always", calls |-> << >>,
       clear |-> FALSE, next |-> WAIT_FOR_END_OF_REVERSE ] >>

\* whether a row's condition holds for a request flag and a sensor reading
RowCondition(cond, deact, s) ==
  CASE cond = "always" -> TRUE
    [] cond = "request set" -> deact
    [] cond = "throttle > 0" -> s.thr > 0
    [] cond = "throttle = 0" -> s.thr = 0
    [] cond = "wheels on ground" -> s.wheels = 1
    [] cond = "airspeed > minimum" -> s.ias > 600
    [] cond = "airspeed <= minimum" -> s.ias <= 600

\* the rows that apply: the state's rows whose condition holds and that no
\* earlier row of the state pre-empts
ApplicableRows(st, deact, s) ==
  { i \in 1..Len(TransitionTable) :
      /\ TransitionTable[i].state = st
      /\ RowCondition(TransitionTable[i].cond, deact, s)
      /\ \A j \in 1..(i - 1) :
           TransitionTable[j].state = st
             => ~RowCondition(TransitionTable[j].cond, deact, s) }

\* C14: for every state, request flag and sensor reading exactly one row of the
\* transition table applies to a tick, and the tick's next state, command calls
\* and clearing of the request are that row's.
C14_TickFollowsTable ==
  lastOp = "tick" =>
    LET rows == ApplicableRows(prev.state, prev.deact, sensors)
    IN  /\ Cardinality(rows) = 1
        /\ \A i \in rows :
             /\ CurrentState = TransitionTable[i].next
             /\ calls = TransitionTable[i].calls
             /\ DeactivationRequested =
                  (IF TransitionTable[i].clear THEN FALSE ELSE prev.deact)

\* a tick in APPLY_REVERSE at exactly the minimum airspeed took the row that
\* goes back to WAIT_FOR_USER
C14_Witness ==
  /\ lastOp = "tick"
  /\ prev.state = APPLY_REVERSE
  /\ sensors.ias = 600
  /\ CurrentState = WAIT_FOR_USER
  /\ calls = << >>

\* C15: XPLMCommandBegin(ReverseThrustCmd) is called only after an earlier tick
\* of the same cycle has read all wheels on the ground in WAIT_FOR_TOUCHDOWN,
\* and never while the throttle-down command is held.
C15_ReverseOnlyAfterTouchdown ==
  (lastOp = "tick" /\ Count(calls, BeginCall(ReverseThrustCmd)) > 0) =>
    /\ touchdownRead
    /\ prev.state # WAIT_FOR_TOUCHDOWN
    /\ prev.held[ThrottleDownCmd] = FALSE
    /\ held[ThrottleDownCmd] = FALSE

\* reverse thrust has just been begun in a cycle that throttled down first
C15_Witness ==
  /\ lastOp = "tick"
  /\ calls = << BeginCall(ReverseThrustCmd) >>
  /\ touchdownRead
  /\ held[ReverseThrustCmd]
  /\ CurrentState = WAIT_FOR_END_OF_REVERSE

\* C16: after every tick that leaves the reverse-thrust command held, the
\* airspeed of that tick was above 60 kt; a tick in APPLY_REVERSE at 60 kt or
\* less goes to WAIT_FOR_USER without beginning the command, and a tick in
\* WAIT_FOR_END_OF_REVERSE at 60 kt or less ends it and goes to WAIT_FOR_USER.
C16_ReverseOnlyAboveMinimum ==
  /\ (lastOp = "tick" /\ held[ReverseThrustCmd]) => sensors.ias > 600
  /\ (lastOp = "tick" /\ prev.state = APPLY_REVERSE /\ sensors.ias <= 600) =>
       /\ CurrentState = WAIT_FOR_USER
       /\ calls = << >>
       /\ held[ReverseThrustCmd] = FALSE
  /\ (lastOp = "tick" /\ prev.state = WAIT_FOR_END_OF_REVERSE /\ sensors.ias <= 600) =>
       /\ CurrentState = WAIT_FOR_USER
       /\ calls = << EndCall(ReverseThrustCmd) >>
       /\ held[ReverseThrustCmd] = FALSE

\* reverse thrust was ended by the airspeed reaching exactly 60 kt, no stop
\* pending
C16_Witness ==
  /\ lastOp = "tick"
  /\ prev.state = WAIT_FOR_END_OF_REVERSE
  /\ ~prev.deact
  /\ prev.held[ReverseThrustCmd]
  /\ sensors.ias = 600
  /\ CurrentState = WAIT_FOR_USER
  /\ held[ReverseThrustCmd] = FALSE

\* C17: no tick that runs while DeactivationRequested is set calls
\* XPLMCommandBegin, for the throttle-down command or for reverse thrust.
C17_NoBeginWhileStopRequested ==
  (lastOp = "tick" /\ prev.deact) =>
    \A c \in Commands : Count(calls, BeginCall(c)) = 0

\* C18: the throttle-down command is held if and only if CurrentState is
\* WAIT_FOR_IDLE_THROTTLE; it is never held together with the reverse-thrust
\* command, never ended while not held and never begun while held.
C18_ThrottleHeldIffAwaitingIdleThrottle ==
  /\ held[ThrottleDownCmd] <=> (CurrentState = WAIT_FOR_IDLE_THROTTLE)
  /\ ~(held[ThrottleDownCmd] /\ held[ReverseThrustCmd])
  /\ Count(calls, EndCall(ThrottleDownCmd)) > 0 => prev.held[ThrottleDownCmd]
  /\ Count(calls, BeginCall(ThrottleDownCmd)) > 0 => ~prev.held[ThrottleDownCmd]

\* the throttle reached idle and the throttle-down command was released on the
\* way to WAIT_FOR_TOUCHDOWN
C18_Witness ==
  /\ lastOp = "tick"
  /\ prev.state = WAIT_FOR_IDLE_THROTTLE
  /\ prev.held[ThrottleDownCmd]
  /\ CurrentState = WAIT_FOR_TOUCHDOWN
  /\ calls = << EndCall(ThrottleDownCmd) >>
  /\ held[ThrottleDownCmd] = FALSE

\* C19: whenever CurrentState is WAIT_FOR_USER, DeactivationRequested is false.
C19_IdleHasNoPendingRequest ==
  CurrentState = WAIT_FOR_USER => DeactivationRequested = FALSE

\* C20: whenever Enable() moves CurrentState to START, DeactivationRequested is
\* false afterwards, and a tick takes the stop branch of a waiting state only
\* when the stop menu item was chosen after that cycle's activation.
C20_CycleStartsWithoutRequest ==
  /\ (lastOp = "activate" /\ prev.state = WAIT_FOR_USER /\ CurrentState = START) =>
       DeactivationRequested = FALSE
  /\ (CurrentState = START /\ DeactivationRequested) => stopTicks = 0
  /\ (StopTransition /\ CurrentState = WAIT_FOR_USER) => stopDone >= 1

\* an activation found a request left over from the cycle before and cleared it
C20_Witness ==
  /\ lastOp = "activate"
  /\ prev.state = WAIT_FOR_USER
  /\ prev.deact
  /\ CurrentState = START
  /\ DeactivationRequested = FALSE

====
